---- MODULE Spec2Model ----
(***************************************************************************)
(* Model of consulta_api.py: the two-phase harvesting pipeline             *)
(* (listar_oc_por_rango, descargar_detalle_y_escribir, main) and the       *)
(* retry loop request_with_retries.                                        *)
(*                                                                         *)
(* Two specifications share the module:                                    *)
(*   SpecRetry  one call of request_with_retries, one loop iteration per   *)
(*              step, the server's answer to each attempt chosen freely;   *)
(*   Spec       one run of main(): validation, discovery, fetch, export,   *)
(*              at worker count 1 (sequential loops) and > 1 (pool).       *)
(***************************************************************************)
EXTENDS Integers, Sequences, FiniteSets, TLC

VARIABLES
    \* ---- request_with_retries (SpecRetry) ----
    retries,        \* the parameter `retries`
    attempt,        \* local `attempt`
    wait,           \* local `wait` (seconds)
    rpc,            \* "idle" | "loop" | "returned"
    response,       \* "pending" | "response" | "None": what the call returned
    statuses,       \* history: the outcome of every attempt made, in order
    sleeps,         \* history: every time.sleep(wait) of the loop, in order
    rlog,           \* history: the logger calls of the loop, in order
    \* ---- configuration of one run (args), read-only after Init ----
    desde,          \* args.desde, a day number
    hasta,          \* args.hasta
    workers,        \* args.workers
    batch_size,     \* args.batch_size
    organismos,     \* the organization list handed to listar_oc_por_rango
    \* ---- main() ----
    pc,             \* position of the main thread
    rc,             \* exit status of main(): "none" until it returns 0 or 1
    xlsx,           \* consulta_api.xlsx was generated
    \* ---- the current phase's tasks (Query Cells, then identifiers) ----
    estado,         \* per task: "cola" | "curso" | "hecha" | "error" | "recogida"
    resultado,      \* per task: the value its future holds until collected
    hilo,           \* per pool thread: the task it is running, 0 when idle
    sesion,         \* per thread (0 = main): "none" | "open" | "closed"
    sessions,       \* list `_SESSIONS`: the owner thread of each registered session
    \* ---- listar_oc_por_rango ----
    codigos,        \* list `codigos`
    vistos,         \* set `vistos`
    leidos,         \* history: the truthy codes the sequential loop has taken from
                    \* the listings, in the order it read them
    \* ---- descargar_detalle_y_escribir ----
    csv,            \* consulta_api.csv: [existe, cabeceras, filas]
    filas_batch,    \* list `filas_batch`
    escritos,       \* counter `escritos`
    escribir_header,\* flag `escribir_header`
    \* ---- history (not program state) ----
    veces,          \* per identifier: cells that listed it (discovery phase only)
    pausa,          \* per task: "-" | "si" | "no" | "exc" (pacing after its request)
    avisos,         \* per task: the logger call made for its failure: "-" (none) |
                    \* "peticion" | "nojson" | "exception" | "inesperado"
    desenlace,      \* per task: "-" | "fallo" | "listado" | "rechazada" | "fila" | "exc"
    peticiones,     \* per identifier: detail requests issued for it
    flushes,        \* sizes of the batches written by flush(), in order
    esperadas,      \* rows the detail responses served so far call for
    aceptadas,      \* rows appended to filas_batch so far, in order
    \* ---- construir_fila_oc (SpecFila) ----
    datos_oc,       \* the argument `oc`
    fila_oc,        \* the row returned, <<>> until then
    fpc             \* "idle" | "llamada" | "devuelta" | "lanzada"

rvars == <<retries, attempt, wait, rpc, response, statuses, sleeps, rlog>>
cfgvars == <<desde, hasta, workers, batch_size, organismos>>
taskvars == <<estado, resultado, hilo, sesion, sessions>>
listvars == <<codigos, vistos, leidos>>
sinkvars == <<csv, filas_batch, escritos, escribir_header>>
histvars == <<veces, pausa, desenlace, avisos, peticiones, flushes, esperadas, aceptadas>>
pvars == <<cfgvars, pc, rc, xlsx, taskvars, listvars, sinkvars, histvars>>
fvars == <<datos_oc, fila_oc, fpc>>
vars == <<rvars, pvars, fvars>>

(***************************************************************************)
(* Bounds of the model.                                                    *)
(***************************************************************************)
MaxRetries == 3
MaxWorkers == 2
MaxBatch == 2

\* The identifiers the server may list.
Ids == {"a", "b", "c"}

\* The runs explored: days are numbered relative to the first day of the
\* window (desde is day 1); hasta = 0 is the range main() rejects. Grids of
\* one to three Query Cells.
Escenarios ==
    {[hasta |-> 0, organismos |-> <<"o1">>],
     [hasta |-> 1, organismos |-> <<"o1">>],
     [hasta |-> 1, organismos |-> <<"o1", "o2">>],
     [hasta |-> 2, organismos |-> <<"o1">>],
     [hasta |-> 3, organismos |-> <<"o1">>]}

\* The days a record's creation date may fall on: from the day before the
\* window to the day after the longest one.
DiasRegistro == 0..4

\* The outcome of one session.get: an HTTP status code, or Exc (no status)
\* when requests raised a RequestException (timeout, connection error).
Exc == 0
StatusCodes == {200, 201, 301, 404, 429, 499, 500, 503, 599, 600}
Outcomes == StatusCodes \cup {Exc}

(***************************************************************************)
(* request_with_retries                                                    *)
(***************************************************************************)
\* while attempt < retries
LoopCondOffByOne(a, r) == a <= r
LoopCond(a, r) == a < r

\* response.status_code in {429} or 500 <= response.status_code < 600
IsRetryableStatusOpen(s) == s \in {429} \/ (500 < s /\ s < 600)
IsRetryableStatus(s) == s \in {429} \/ (500 <= s /\ s < 600)

RetryInit ==
    /\ retries \in 0..MaxRetries
    /\ attempt = 0
    /\ wait = 1
    /\ rpc = "loop"
    /\ response = "pending"
    /\ statuses = <<>>
    /\ sleeps = <<>>
    /\ rlog = <<>>

RetryIdle ==
    /\ retries = 0
    /\ attempt = 0
    /\ wait = 1
    /\ rpc = "idle"
    /\ response = "pending"
    /\ statuses = <<>>
    /\ sleeps = <<>>
    /\ rlog = <<>>

\* a tail whose delay grows by one unit instead of doubling
BackoffLineal ==
    /\ attempt' = attempt + 1
    /\ sleeps' = Append(sleeps, wait)
    /\ wait' = wait + 1
    /\ UNCHANGED <<rpc, response>>

\* the tail of one iteration that retries: attempt += 1; sleep(wait); wait *= 2
Backoff ==
    /\ attempt' = attempt + 1
    /\ sleeps' = Append(sleeps, wait)
    /\ wait' = wait * 2
    /\ UNCHANGED <<rpc, response>>

\* one iteration of the loop whose session.get returned status 200
AttemptOk ==
    /\ rpc = "loop"
    /\ LoopCond(attempt, retries)
    /\ statuses' = Append(statuses, 200)
    /\ response' = "response"
    /\ rpc' = "returned"
    /\ UNCHANGED <<retries, attempt, wait, sleeps, rlog>>
    /\ UNCHANGED <<pvars, fvars>>

\* one iteration whose session.get returned a status other than 200
AttemptStatus(s) ==
    /\ rpc = "loop"
    /\ LoopCond(attempt, retries)
    /\ s # 200
    /\ statuses' = Append(statuses, s)
    /\ IF IsRetryableStatus(s)
         THEN /\ rlog' = Append(rlog, "warning")
              /\ Backoff
         ELSE /\ rlog' = Append(rlog, "error")
              /\ response' = "None"
              /\ rpc' = "returned"
              /\ UNCHANGED <<attempt, wait, sleeps>>
    /\ UNCHANGED retries
    /\ UNCHANGED <<pvars, fvars>>

\* one iteration whose session.get raised requests.RequestException
AttemptException ==
    /\ rpc = "loop"
    /\ LoopCond(attempt, retries)
    /\ statuses' = Append(statuses, Exc)
    /\ rlog' = Append(rlog, "warning")
    /\ Backoff
    /\ UNCHANGED retries
    /\ UNCHANGED <<pvars, fvars>>

\* the loop condition fails: log "Agotados los reintentos", return None
Exhausted ==
    /\ rpc = "loop"
    /\ ~LoopCond(attempt, retries)
    /\ rlog' = Append(rlog, "agotados")
    /\ response' = "None"
    /\ rpc' = "returned"
    /\ UNCHANGED <<retries, attempt, wait, statuses, sleeps>>
    /\ UNCHANGED <<pvars, fvars>>

RetryNext ==
    \/ AttemptOk
    \/ \E s \in StatusCodes : AttemptStatus(s)
    \/ AttemptException
    \/ Exhausted

(***************************************************************************)
(* Data: the upstream API's answers                                        *)
(***************************************************************************)
\* One entry of a listing's "Listado". mapa = FALSE is an entry that is not
\* a JSON object (registro.get raises AttributeError on it). The code "[x]"
\* stands for a Codigo that is a JSON array: truthy and unhashable, so that
\* `codigo not in vistos` raises TypeError on it.
Registros ==
    {[mapa |-> TRUE, Codigo |-> "a", codigo |-> ""],
     [mapa |-> TRUE, Codigo |-> "b", codigo |-> ""],
     [mapa |-> TRUE, Codigo |-> "", codigo |-> "c"],
     [mapa |-> TRUE, Codigo |-> "a", codigo |-> "c"],
     [mapa |-> TRUE, Codigo |-> "", codigo |-> ""],
     [mapa |-> FALSE, Codigo |-> "", codigo |-> ""]}

RegistroNoHashable == [mapa |-> TRUE, Codigo |-> "[x]", codigo |-> ""]

\* The listings served: every list of up to two of the entries above, and
\* two listings with an unhashable code, first or after a valid one.
LongitudesListado == 0..2
Listados ==
    UNION {[1..n -> Registros] : n \in LongitudesListado}
    \cup {<<RegistroNoHashable>>,
          <<[mapa |-> TRUE, Codigo |-> "b", codigo |-> ""], RegistroNoHashable>>}

\* What request_with_retries and response.json() give for one Query Cell:
\* tipo "None" (no response: retries exhausted or terminal status),
\* "nojson" (body is not JSON), "json" (payload with its Listado, [] when
\* the field is missing or null).
RespListado ==
    {[tipo |-> "None", listado |-> <<>>], [tipo |-> "nojson", listado |-> <<>>]}
    \cup {[tipo |-> "json", listado |-> l] : l \in Listados}

\* A JSON creation date: absent/empty, a string dateutil cannot parse, or
\* a timestamp of day `dia` at hour `hora`.
FechasJson ==
    {[tipo |-> "vacia", dia |-> 0, hora |-> 0], [tipo |-> "invalida", dia |-> 0, hora |-> 0]}
    \cup [tipo : {"fecha"}, dia : DiasRegistro, hora : {0, 23}]

\* What request_with_retries and response.json() give for one identifier:
\* "None", "nojson", "vacio" (Listado missing, null or empty), "excepcion"
\* (a payload whose shape makes the processing raise: a payload that is no
\* object, a Listado that is a number, Items that are no objects), "oc" (a
\* record with its creation date; a Listado that is a list and one that is
\* a single object are both normalised to this first record).
SinFecha == [tipo |-> "vacia", dia |-> 0, hora |-> 0]
RespDetalle ==
    {[tipo |-> t, fecha |-> SinFecha] : t \in {"None", "nojson", "vacio", "excepcion"}}
    \cup [tipo : {"oc"}, fecha : FechasJson]

(***************************************************************************)
(* Pure helpers                                                            *)
(***************************************************************************)
Range(s) == {s[i] : i \in 1..Len(s)}

\* rango_fechas: desde, desde+1, ..., hasta (empty when hasta < desde)
RangoFechas(d, h) == [i \in 1..(IF h < d THEN 0 ELSE h - d + 1) |-> d + i - 1]

\* a grid that pairs each date with the first organization only
CombinacionesPrimerOrganismo(d, h, orgs) ==
    LET fechas == RangoFechas(d, h)
    IN  [k \in 1..Len(fechas) |-> [dia |-> fechas[k], organismo |-> orgs[1]]]

\* [(dia, org) for dia in fechas for org in organismos]
Combinaciones(d, h, orgs) ==
    LET fechas == RangoFechas(d, h)
        m == Len(orgs)
    IN  [k \in 1..(Len(fechas) * m) |->
            [dia |-> fechas[((k - 1) \div m) + 1], organismo |-> orgs[((k - 1) % m) + 1]]]

\* validar_rango raises ValueError
RangoInvalidoEstricto(d, h) == h <= d
RangoInvalido(d, h) == h < d

\* registro.get("Codigo") or registro.get("codigo")
CodigoDe(registro) == IF registro.Codigo # "" THEN registro.Codigo ELSE registro.codigo

\* the truthy codes of a listing, in order (procesar's `resultados`)
CodigosDeListado(l) ==
    LET cs == [i \in 1..Len(l) |-> CodigoDe(l[i])]
    IN  SelectSeq(cs, LAMBDA c : c # "")

\* the entries iterated before the first one that is no object
PrefijoValido(l) ==
    LET malos == {i \in 1..Len(l) : ~l[i].mapa}
    IN  IF malos = {} THEN l
        ELSE SubSeq(l, 1, (CHOOSE i \in malos : \A j \in malos : i <= j) - 1)

\* the loop over a listing raises (AttributeError) at its first non-object
ListadoLanza(l) == \E i \in 1..Len(l) : ~l[i].mapa

\* an insertion at the front of the sequence
AgregarAlFrente(st, c) ==
    IF c \notin st.vistos
      THEN [vistos |-> st.vistos \cup {c}, codigos |-> <<c>> \o st.codigos]
      ELSE st

\* if codigo not in vistos: vistos.add(codigo); codigos.append(codigo)
AgregarSinVistos(st, c) ==
    [vistos |-> st.vistos \cup {c}, codigos |-> Append(st.codigos, c)]
AgregarCodigo(st, c) ==
    IF c \notin st.vistos
      THEN [vistos |-> st.vistos \cup {c}, codigos |-> Append(st.codigos, c)]
      ELSE st

\* `codigo not in vistos` raises TypeError: the code cannot be hashed
NoHashable(c) == c = "[x]"

\* the merge loop over `nuevos` raises at its first unhashable code
MergeLanza(nuevos) == \E i \in 1..Len(nuevos) : NoHashable(nuevos[i])

\* the codes merged before the loop raises (all of them when it does not)
PrefijoHashable(nuevos) ==
    LET malos == {i \in 1..Len(nuevos) : NoHashable(nuevos[i])}
    IN  IF malos = {} THEN nuevos
        ELSE SubSeq(nuevos, 1, (CHOOSE i \in malos : \A j \in malos : i <= j) - 1)

\* a merge that tests every code against the set as it was before the loop
\* and inserts afterwards
MergeCodigosSinMarcar(st, nuevos) ==
    [vistos |-> st.vistos \cup Range(nuevos),
     codigos |-> st.codigos \o SelectSeq(nuevos, LAMBDA c : c \notin st.vistos)]

\* for codigo in nuevos: if codigo not in vistos: add, append
RECURSIVE MergeCodigos(_, _)
MergeCodigos(st, nuevos) ==
    IF nuevos = <<>> THEN st
    ELSE MergeCodigos(AgregarCodigo(st, Head(nuevos)), Tail(nuevos))

\* parse_fecha_json: None ({}) for a falsy or unparsable value, else the
\* date part of the parsed timestamp
ParseFechaJson(valor) ==
    IF valor.tipo = "vacia" THEN {}
    ELSE IF valor.tipo = "invalida" THEN {}
    ELSE {valor.dia}

\* formatear_fecha_salida: "" (<<>>) or the day rendered as dd-mm-YYYY
FormatearFechaSalida(valor) ==
    LET fecha == ParseFechaJson(valor)
    IN  IF fecha = {} THEN <<>> ELSE <<CHOOSE d \in fecha : TRUE>>

\* fecha_creacion is None or fecha_creacion < desde_dt or fecha_creacion > hasta_dt
FueraDeRangoEstricto(fecha, d, h) ==
    fecha = {} \/ \E f \in fecha : f <= d \/ f >= h
FueraDeRango(fecha, d, h) ==
    fecha = {} \/ \E f \in fecha : f < d \/ f > h

\* construir_fila_oc, reduced to the two columns the pipeline's claims read
ConstruirFilaOc(oc) ==
    [Codigo |-> oc.Codigo, FechaCreacion |-> FormatearFechaSalida(oc.FechaCreacion)]

\* the detail record the server returns for identifier `codigo`
Oc(codigo, r) == [Codigo |-> codigo, FechaCreacion |-> r.fecha]

\* procesar / the loop body of the fetch phase up to the row: "lanza" when
\* it raises, else the row in a one-element sequence, or <<>> when the
\* identifier is skipped
FilaDe(codigo, r, d, h) ==
    IF r.tipo \in {"None", "nojson", "vacio"} THEN <<>>
    ELSE IF FueraDeRango(ParseFechaJson(Oc(codigo, r).FechaCreacion), d, h) THEN <<>>
    ELSE <<ConstruirFilaOc(Oc(codigo, r))>>

\* a flush that leaves the batch as it is
FlushSinVaciar(s) ==
    IF s.filas_batch = <<>> THEN s
    ELSE [csv |-> [existe |-> TRUE,
                   cabeceras |-> s.csv.cabeceras + (IF s.escribir_header THEN 1 ELSE 0),
                   filas |-> s.csv.filas \o s.filas_batch],
          escribir_header |-> FALSE,
          escritos |-> s.escritos + Len(s.filas_batch),
          filas_batch |-> s.filas_batch,
          flushes |-> Append(s.flushes, Len(s.filas_batch))]
\* a flush that counts one row per batch written
FlushCuentaUno(s) ==
    IF s.filas_batch = <<>> THEN s
    ELSE [csv |-> [existe |-> TRUE,
                   cabeceras |-> s.csv.cabeceras + (IF s.escribir_header THEN 1 ELSE 0),
                   filas |-> s.csv.filas \o s.filas_batch],
          escribir_header |-> FALSE,
          escritos |-> s.escritos + 1,
          filas_batch |-> <<>>,
          flushes |-> Append(s.flushes, Len(s.filas_batch))]
\* a flush that writes the header line with every batch
FlushCabeceraSiempre(s) ==
    IF s.filas_batch = <<>> THEN s
    ELSE [csv |-> [existe |-> TRUE,
                   cabeceras |-> s.csv.cabeceras + 1,
                   filas |-> s.csv.filas \o s.filas_batch],
          escribir_header |-> FALSE,
          escritos |-> s.escritos + Len(s.filas_batch),
          filas_batch |-> <<>>,
          flushes |-> Append(s.flushes, Len(s.filas_batch))]
\* flush(): nothing when the batch is empty; else append the batch to the
\* file (creating it, with the header on the first write) and clear it
Flush(s) ==
    IF s.filas_batch = <<>> THEN s
    ELSE [csv |-> [existe |-> TRUE,
                   cabeceras |-> s.csv.cabeceras + (IF s.escribir_header THEN 1 ELSE 0),
                   filas |-> s.csv.filas \o s.filas_batch],
          escribir_header |-> FALSE,
          escritos |-> s.escritos + Len(s.filas_batch),
          filas_batch |-> <<>>,
          flushes |-> Append(s.flushes, Len(s.filas_batch))]

\* if len(filas_batch) >= args.batch_size
BatchLlenoEstricto(n, b) == n > b
BatchLleno(n, b) == n >= b

\* filas_batch.append(fila); if len(filas_batch) >= args.batch_size: flush()
Aceptar(s, fila, b) ==
    LET t == [s EXCEPT !.filas_batch = Append(@, fila)]
    IN  IF BatchLleno(Len(t.filas_batch), b) THEN Flush(t) ELSE t

Sink == [csv |-> csv, escribir_header |-> escribir_header, escritos |-> escritos,
         filas_batch |-> filas_batch, flushes |-> flushes]

SinkIs(s) ==
    /\ csv' = s.csv
    /\ escribir_header' = s.escribir_header
    /\ escritos' = s.escritos
    /\ filas_batch' = s.filas_batch
    /\ flushes' = s.flushes

NoFile == [existe |-> FALSE, cabeceras |-> 0, filas |-> <<>>]
FilaVieja == [Codigo |-> "vieja", FechaCreacion |-> <<>>]
StaleFile == [existe |-> TRUE, cabeceras |-> 1, filas |-> <<FilaVieja>>]

(***************************************************************************)
(* construir_fila_oc as a function of the whole Detail Record.             *)
(*                                                                         *)
(* A Detail Record is described by the shape of each source field the      *)
(* function reads: "absent" (no such key), "null" (JSON null), "v" (a      *)
(* non-empty scalar), "mapa..." (a JSON object), "lista..." (a JSON        *)
(* array).  A cell of the row is "" (the empty string), "None" (Python's   *)
(* None), "v" (a non-empty value) or "fecha" (a day as dd-mm-YYYY).        *)
(* In the column names an accented letter is written as the letter         *)
(* followed by an apostrophe.                                              *)
(***************************************************************************)
COLUMNAS ==
    {"Co'digo OC", "Nombre", "Co'digo Estado", "Descripcio'n",
     "Co'digo Licitacio'n", "Tipo", "Moneda", "Fecha Creacio'n",
     "Fecha Envi'o", "Fecha Aceptacio'n", "Total", "Total Neto", "Proveedor",
     "Rut Proveedor", "Unidad Compradora", "Nombre Organismo",
     "Contacto Comprador", "Fuente Financiamiento", "Codigo categoria",
     "Categori'a", "Codigo producto"}

\* the source fields, and the shapes each of them takes in the model:
\*   Codigo      oc["Codigo"]
\*   otros       oc["Nombre"], ["CodigoEstado"], ["Descripcion"],
\*               ["CodigoLicitacion"], ["Tipo"], ["Total"], ["TotalNeto"]
\*   Moneda      oc["Moneda"]: scalar, object with a name, object without
\*               one, array of one scalar
\*   Fechas      oc["Fechas"]: object, or a non-empty scalar
\*   FechaCreacion, FechaEnvio (FechaAceptacion goes with FechaEnvio):
\*               members of the object Fechas
\*   Proveedor   oc["Proveedor"]: object with Nombre and RutProveedor,
\*               object with RutSucursal only, empty object, scalar
\*   Comprador   oc["Comprador"]: object with NombreUnidad, NombreOrganismo
\*               and Nombre, or a scalar
\*   Fuente      oc["FuenteFinanciamiento"]: scalar, object with a name, or
\*               absent at the top and present in Comprador ("comprador")
\*   Items       oc["Items"]: {"Listado": [item]}, {"Item": [item]},
\*               {"Listado": item}, [item], [], ["texto"], "texto", 5
\*   item        the first item: an object with CodigoCategoria, Categoria,
\*               CodigoProducto and Moneda ("completo"), or {} ("vacio")
Variantes ==
    [Codigo |-> {"absent", "null", "v"},
     otros |-> {"absent", "null", "v"},
     Moneda |-> {"absent", "null", "v", "mapa", "mapa_vacio", "lista"},
     Fechas |-> {"absent", "null", "mapa", "v"},
     FechaCreacion |-> {"absent", "invalida", "fecha"},
     FechaEnvio |-> {"absent", "invalida", "fecha"},
     Proveedor |-> {"absent", "null", "v", "mapa", "mapa_sucursal", "mapa_vacio"},
     Comprador |-> {"absent", "v", "mapa"},
     Fuente |-> {"absent", "v", "mapa", "comprador"},
     Items |-> {"absent", "null", "mapa_listado", "mapa_item", "mapa_unico",
                "lista", "lista_vacia", "lista_escalares", "v", "numero"},
     item |-> {"completo", "vacio"}]

CamposOc == DOMAIN Variantes

\* a record with every source field present and well-formed
OcCompleta ==
    [Codigo |-> "v", otros |-> "v", Moneda |-> "v", Fechas |-> "mapa",
     FechaCreacion |-> "fecha", FechaEnvio |-> "fecha", Proveedor |-> "mapa",
     Comprador |-> "mapa", Fuente |-> "v", Items |-> "mapa_listado",
     item |-> "completo"]

\* a record with no source field at all: {}
OcVacia ==
    [Codigo |-> "absent", otros |-> "absent", Moneda |-> "absent",
     Fechas |-> "absent", FechaCreacion |-> "absent", FechaEnvio |-> "absent",
     Proveedor |-> "absent", Comprador |-> "absent", Fuente |-> "absent",
     Items |-> "absent", item |-> "vacio"]

Desviaciones == UNION {{<<c, v>> : v \in Variantes[c]} : c \in CamposOc}

\* the Detail Records of the model: the complete one and the empty one, each
\* with up to two of its source fields given another shape
DetailRecords ==
    {[b EXCEPT ![f[1]] = f[2], ![g[1]] = g[2]] :
        b \in {OcCompleta, OcVacia}, f \in Desviaciones, g \in Desviaciones}

\* oc.get(clave, ""): the default only when the key is absent
GetConDefecto(v) ==
    IF v = "absent" THEN "" ELSE IF v = "null" THEN "None" ELSE "v"

\* primer_item (lines 363-370): "lanza" when listado_items[0] raises, else
\* the shape of the first item: "vacio" ({}), "mapa", "escalar"
PrimerItem(o) ==
    CASE o.Items \in {"absent", "null", "lista_vacia"} -> "vacio"
      [] o.Items \in {"mapa_listado", "mapa_item", "mapa_unico", "lista"} ->
            IF o.item = "completo" THEN "mapa" ELSE "vacio"
      [] o.Items \in {"lista_escalares", "v"} -> "escalar"
      [] o.Items = "numero" -> "lanza"

\* normalizar_moneda(oc.get("Moneda"))
NormalizarMoneda(v) ==
    IF v \in {"v", "mapa", "lista"} THEN "v" ELSE ""

\* obtener_moneda: "lanza" when primer_item.get does not exist
ObtenerMoneda(o) ==
    IF NormalizarMoneda(o.Moneda) # "" THEN NormalizarMoneda(o.Moneda)
    ELSE IF PrimerItem(o) = "vacio" THEN ""
    ELSE IF PrimerItem(o) = "mapa" THEN "v"
    ELSE "lanza"

\* formatear_fecha_salida(fechas.get(clave)): "lanza" when `fechas` is a
\* non-empty scalar, which has no .get
FechaSalida(o, v) ==
    IF o.Fechas = "v" THEN "lanza"
    ELSE IF o.Fechas = "mapa" /\ v = "fecha" THEN "fecha"
    ELSE ""

\* safe_get(oc, "Proveedor", "Nombre")
SafeGetProveedor(o) == IF o.Proveedor = "mapa" THEN "v" ELSE ""

\* obtener_rut_proveedor: RutProveedor, else RutSucursal
ObtenerRutProveedor(o) ==
    IF o.Proveedor \in {"mapa", "mapa_sucursal"} THEN "v" ELSE ""

\* safe_get(oc, "Comprador", clave) for NombreUnidad, NombreOrganismo, Nombre
SafeGetComprador(o) == IF o.Comprador = "mapa" THEN "v" ELSE ""

\* obtener_fuente_financiamiento
ObtenerFuenteFinanciamiento(o) ==
    IF o.Fuente \in {"v", "mapa"} THEN "v"
    ELSE IF o.Fuente = "comprador" /\ o.Comprador = "mapa" THEN "v"
    ELSE ""

\* primer_item.get(clave, "") if primer_item else ""
DelPrimerItem(o) ==
    CASE PrimerItem(o) = "vacio" -> ""
      [] PrimerItem(o) = "mapa" -> "v"
      [] OTHER -> "lanza"

\* the dict literal of lines 372-394, key by key
FilaLiteral(o) ==
    [c \in {"Co'digo OC"} |-> GetConDefecto(o.Codigo)]
    @@ [c \in {"Nombre", "Co'digo Estado", "Descripcio'n", "Co'digo Licitacio'n",
               "Tipo", "Total", "Total Neto"} |-> GetConDefecto(o.otros)]
    @@ [c \in {"Moneda"} |-> ObtenerMoneda(o)]
    @@ [c \in {"Fecha Creacio'n"} |-> FechaSalida(o, o.FechaCreacion)]
    @@ [c \in {"Fecha Envi'o", "Fecha Aceptacio'n"} |-> FechaSalida(o, o.FechaEnvio)]
    @@ [c \in {"Proveedor"} |-> SafeGetProveedor(o)]
    @@ [c \in {"Rut Proveedor"} |-> ObtenerRutProveedor(o)]
    @@ [c \in {"Unidad Compradora", "Nombre Organismo", "Contacto Comprador"} |->
            SafeGetComprador(o)]
    @@ [c \in {"Fuente Financiamiento"} |-> ObtenerFuenteFinanciamiento(o)]
    @@ [c \in {"Codigo categoria", "Categori'a", "Codigo producto"} |->
            DelPrimerItem(o)]

\* for columna in COLUMNAS: fila.setdefault(columna, "")
SetDefault(f) ==
    [c \in DOMAIN f \cup COLUMNAS |-> IF c \in DOMAIN f THEN f[c] ELSE ""]

\* construir_fila_oc raises: listado_items[0] on a number, or .get on a
\* value that is not an object
ConstruirFilaLanza(o) ==
    \/ PrimerItem(o) = "lanza"
    \/ \E c \in DOMAIN FilaLiteral(o) : FilaLiteral(o)[c] = "lanza"

\* construir_fila_oc, every column
ConstruirFilaCompleta(o) == SetDefault(FilaLiteral(o))

FilaIdle ==
    /\ datos_oc = OcVacia
    /\ fila_oc = <<>>
    /\ fpc = "idle"

FilaInit ==
    /\ datos_oc \in DetailRecords
    /\ fila_oc = <<>>
    /\ fpc = "llamada"

\* one call construir_fila_oc(datos_oc): it returns the row or raises
ConstruirFila ==
    /\ fpc = "llamada"
    /\ IF ConstruirFilaLanza(datos_oc)
         THEN fpc' = "lanzada" /\ fila_oc' = <<>>
         ELSE fpc' = "devuelta" /\ fila_oc' = ConstruirFilaCompleta(datos_oc)
    /\ UNCHANGED <<datos_oc, rvars, pvars>>

(***************************************************************************)
(* main(), up to the discovery phase                                       *)
(***************************************************************************)
Threads == 0..MaxWorkers

Init ==
    /\ RetryIdle
    /\ FilaIdle
    /\ desde = 1
    /\ \E e \in Escenarios : hasta = e.hasta /\ organismos = e.organismos
    /\ workers \in 1..MaxWorkers
    /\ batch_size \in 1..MaxBatch
    /\ pc = "main"
    /\ rc = "none"
    /\ xlsx = FALSE
    /\ estado = <<>>
    /\ resultado = <<>>
    /\ hilo = [w \in 1..MaxWorkers |-> 0]
    /\ sesion = [w \in Threads |-> "none"]
    /\ sessions = <<>>
    /\ codigos = <<>>
    /\ vistos = {}
    /\ leidos = <<>>
    /\ csv \in {NoFile, StaleFile}
    /\ filas_batch = <<>>
    /\ escritos = 0
    /\ escribir_header = TRUE
    /\ veces = [x \in Ids |-> 0]
    /\ pausa = <<>>
    /\ desenlace = <<>>
    /\ avisos = <<>>
    /\ peticiones = [x \in Ids |-> 0]
    /\ flushes = <<>>
    /\ esperadas = {}
    /\ aceptadas = <<>>

PipelineIdle ==
    /\ desde = 1
    /\ hasta = 1
    /\ workers = 1
    /\ batch_size = 1
    /\ organismos = <<>>
    /\ pc = "idle"
    /\ rc = "none"
    /\ xlsx = FALSE
    /\ estado = <<>>
    /\ resultado = <<>>
    /\ hilo = [w \in 1..MaxWorkers |-> 0]
    /\ sesion = [w \in Threads |-> "none"]
    /\ sessions = <<>>
    /\ codigos = <<>>
    /\ vistos = {}
    /\ leidos = <<>>
    /\ csv = NoFile
    /\ filas_batch = <<>>
    /\ escritos = 0
    /\ escribir_header = TRUE
    /\ veces = [x \in Ids |-> 0]
    /\ pausa = <<>>
    /\ desenlace = <<>>
    /\ avisos = <<>>
    /\ peticiones = [x \in Ids |-> 0]
    /\ flushes = <<>>
    /\ esperadas = {}
    /\ aceptadas = <<>>

\* a loop that stops after its first task
SiguienteSoloPrimera ==
    IF Len(estado) >= 1 /\ estado[1] = "cola" THEN 1 ELSE 0

\* the first task not yet started (the pool's queue is FIFO; the
\* sequential loops go through the list in order), 0 when there is none
Siguiente ==
    LET cola == {t \in 1..Len(estado) : estado[t] = "cola"}
    IN  IF cola = {} THEN 0 ELSE CHOOSE t \in cola : \A u \in cola : t <= u

\* main: validar_rango; on ValueError print it and return 1
MainValidar ==
    /\ pc = "main"
    /\ IF RangoInvalido(desde, hasta)
         THEN pc' = "fin" /\ rc' = "1"
         ELSE pc' = "listar" /\ rc' = rc
    /\ UNCHANGED <<rvars, fvars, cfgvars, xlsx, taskvars, listvars, sinkvars, histvars>>

\* listar_oc_por_rango up to its first request: the grid; a session for the
\* sequential loop, or every cell submitted to the pool
ListarInicio ==
    /\ pc = "listar"
    /\ LET total == Len(Combinaciones(desde, hasta, organismos))
       IN  /\ estado' = [t \in 1..total |-> "cola"]
           /\ resultado' = [t \in 1..total |-> <<>>]
           /\ pausa' = [t \in 1..total |-> "-"]
           /\ desenlace' = [t \in 1..total |-> "-"]
           /\ avisos' = [t \in 1..total |-> "-"]
    /\ codigos' = <<>>
    /\ vistos' = {}
    /\ leidos' = <<>>
    /\ IF workers <= 1
         THEN pc' = "listar_seq" /\ sesion' = [sesion EXCEPT ![0] = "open"]
         ELSE pc' = "listar_pool" /\ sesion' = sesion
    /\ UNCHANGED <<rvars, fvars, cfgvars, rc, xlsx, hilo, sessions, sinkvars>>
    /\ UNCHANGED <<veces, peticiones, flushes, esperadas, aceptadas>>

\* history: one more cell listed each code of l
VecesMas(l) ==
    [x \in Ids |-> veces[x] + (IF x \in Range(CodigosDeListado(l)) THEN 1 ELSE 0)]

\* the logger call that names the failure of a request: request_with_retries
\* logs the terminal status or the exhaustion before it returns None, the
\* caller logs a body that is not JSON; nothing else is logged per task
AvisoDe(r) ==
    IF r.tipo = "None" THEN "peticion"
    ELSE IF r.tipo = "nojson" THEN "nojson"
    ELSE "-"

\* an exception leaves the sequential loop: finally session.close(); main
\* logs it, copies the log and returns 1
Abortar(t) ==
    /\ estado' = [estado EXCEPT ![t] = "error"]
    /\ pausa' = [pausa EXCEPT ![t] = "exc"]
    /\ desenlace' = [desenlace EXCEPT ![t] = "exc"]
    /\ avisos' = [avisos EXCEPT ![t] = "inesperado"]
    /\ sesion' = [sesion EXCEPT ![0] = "closed"]
    /\ sessions' = sessions
    /\ pc' = "fin"
    /\ rc' = "1"

\* one iteration of the sequential loop of listar_oc_por_rango
ListarSeqIter ==
    /\ pc = "listar_seq"
    /\ Siguiente # 0
    /\ LET t == Siguiente IN
       \E r \in RespListado :
          IF r.tipo # "json"
            THEN \* response is None, or not JSON: continue
                 /\ estado' = [estado EXCEPT ![t] = "recogida"]
                 /\ pausa' = [pausa EXCEPT ![t] = "no"]
                 /\ desenlace' = [desenlace EXCEPT ![t] = "fallo"]
                 /\ avisos' = [avisos EXCEPT ![t] = AvisoDe(r)]
                 /\ UNCHANGED <<pc, rc, sesion, sessions, codigos, vistos, leidos, veces>>
            ELSE LET nuevos == CodigosDeListado(PrefijoValido(r.listado))
                     st == MergeCodigos([vistos |-> vistos, codigos |-> codigos],
                                        PrefijoHashable(nuevos))
                 IN  /\ codigos' = st.codigos
                     /\ vistos' = st.vistos
                     /\ leidos' = leidos \o PrefijoHashable(nuevos)
                     /\ IF ListadoLanza(r.listado) \/ MergeLanza(nuevos)
                          THEN Abortar(t) /\ veces' = veces
                          ELSE /\ estado' = [estado EXCEPT ![t] = "recogida"]
                               /\ pausa' = [pausa EXCEPT ![t] = "si"]
                               /\ desenlace' = [desenlace EXCEPT ![t] = "listado"]
                               /\ avisos' = avisos
                               /\ veces' = VecesMas(r.listado)
                               /\ UNCHANGED <<pc, rc, sesion, sessions>>
    /\ UNCHANGED <<rvars, fvars, cfgvars, xlsx, resultado, hilo, sinkvars>>
    /\ UNCHANGED <<peticiones, flushes, esperadas, aceptadas>>

\* the sequential loop is over: return codigos; finally session.close()
ListarSeqFin ==
    /\ pc = "listar_seq"
    /\ Siguiente = 0
    /\ sesion' = [sesion EXCEPT ![0] = "closed"]
    /\ pc' = "descargar"
    /\ UNCHANGED <<rvars, fvars, cfgvars, rc, xlsx, estado, resultado, hilo, sessions>>
    /\ UNCHANGED <<listvars, sinkvars, histvars>>

(***************************************************************************)
(* The pool (ThreadPoolExecutor) of either phase                           *)
(***************************************************************************)
\* The executor starts its threads one after the other as tasks are
\* submitted: among the threads that have not run yet (all alike) the next
\* to run is the one of lowest index.
PrimerHiloNuevo(w) ==
    sesion[w] # "none" \/ \A v \in 1..(w - 1) : sesion[v] # "none"

\* _get_thread_session: if session is None (a new one is created, kept in
\* the thread-local slot and registered)
NecesitaSesionSiempre(s) == TRUE
NecesitaSesion(s) == s = "none"

\* a thread that takes a task although it is still running one
HiloLibreSiempre(w) == TRUE

\* a thread of the executor takes a task from the queue only when it has
\* returned from the previous one
HiloLibre(w) == hilo[w] = 0

\* a pool thread takes the next queued task: _get_thread_session(), then
\* the request is in flight
TareaInicio(w) ==
    /\ pc \in {"listar_pool", "listar_pool_error", "descargar_pool"}
    /\ w <= workers
    /\ HiloLibre(w)
    /\ PrimerHiloNuevo(w)
    /\ Siguiente # 0
    /\ hilo' = [hilo EXCEPT ![w] = Siguiente]
    /\ estado' = [estado EXCEPT ![Siguiente] = "curso"]
    /\ sesion' = [sesion EXCEPT ![w] = IF NecesitaSesion(@) THEN "open" ELSE @]
    /\ sessions' = IF NecesitaSesion(sesion[w]) THEN Append(sessions, w) ELSE sessions
    /\ peticiones' = IF pc = "descargar_pool"
                       THEN [peticiones EXCEPT ![codigos[Siguiente]] = @ + 1]
                       ELSE peticiones
    /\ UNCHANGED <<rvars, fvars, cfgvars, pc, rc, xlsx, resultado, listvars, sinkvars>>
    /\ UNCHANGED <<veces, pausa, desenlace, avisos, flushes, esperadas, aceptadas>>

\* a _close_thread_sessions() that closes nothing
CloseThreadSessionsNada == UNCHANGED <<sesion, sessions>>

\* _close_thread_sessions(): every registered session is popped and closed
CloseThreadSessions ==
    /\ sesion' = [w \in Threads |-> IF w \in Range(sessions) THEN "closed" ELSE sesion[w]]
    /\ sessions' = <<>>

\* procesar(dia, organismo) from the response on: parse, sleep, return.
\* Once the collector's merge has raised no future is read again: the value
\* of a task that completes after that is not kept.
ListarTareaFin(w) ==
    /\ pc \in {"listar_pool", "listar_pool_error"}
    /\ hilo[w] # 0
    /\ LET t == hilo[w] IN
       \E r \in RespListado :
          LET lanza == r.tipo = "json" /\ ListadoLanza(r.listado)
              bien == r.tipo = "json" /\ ~lanza
          IN  /\ estado' = [estado EXCEPT ![t] = IF lanza THEN "error" ELSE "hecha"]
              /\ resultado' = [resultado EXCEPT
                                 ![t] = IF bien /\ pc = "listar_pool"
                                          THEN CodigosDeListado(r.listado) ELSE <<>>]
              /\ pausa' = [pausa EXCEPT ![t] = IF lanza THEN "exc" ELSE "si"]
              /\ desenlace' = [desenlace EXCEPT
                                 ![t] = IF lanza THEN "exc" ELSE IF bien THEN "listado" ELSE "fallo"]
              /\ avisos' = [avisos EXCEPT ![t] = AvisoDe(r)]
              /\ veces' = IF bien /\ pc = "listar_pool" THEN VecesMas(r.listado) ELSE veces
    /\ hilo' = [hilo EXCEPT ![w] = 0]
    /\ UNCHANGED <<rvars, fvars, cfgvars, pc, rc, xlsx, sesion, sessions, listvars, sinkvars>>
    /\ UNCHANGED <<peticiones, flushes, esperadas, aceptadas>>

\* future.result() in the as_completed loop: whichever future completed,
\* its value ([] or None, here <<>>, when it holds an exception)
Recogido(t) == resultado[t]

\* one turn of the as_completed loop of listar_oc_por_rango: future.result()
\* (an exception gives nuevos = []), then the merge under the lock. A
\* TypeError of the merge is not caught: it leaves the loop and the `with`
\* block, whose exit waits for the tasks still queued or running; no
\* future is read after that (their values are not kept).
ListarRecoger(t) ==
    /\ pc = "listar_pool"
    /\ t \in 1..Len(estado)
    /\ estado[t] \in {"hecha", "error"}
    /\ LET nuevos == Recogido(t)
           st == MergeCodigos([vistos |-> vistos, codigos |-> codigos],
                              PrefijoHashable(nuevos))
       IN  /\ codigos' = st.codigos
           /\ vistos' = st.vistos
           /\ leidos' = leidos
           /\ IF MergeLanza(nuevos)
                THEN /\ estado' = [estado EXCEPT ![t] = "error"]
                     /\ desenlace' = [desenlace EXCEPT ![t] = "exc"]
                     /\ avisos' = [avisos EXCEPT ![t] = "inesperado"]
                     /\ pc' = "listar_pool_error"
                     /\ resultado' = [u \in 1..Len(resultado) |-> <<>>]
                     /\ veces' = [x \in Ids |-> 0]
                ELSE /\ estado' = [estado EXCEPT ![t] = "recogida"]
                     /\ resultado' = [resultado EXCEPT ![t] = <<>>]
                     /\ avisos' = [avisos EXCEPT ![t] = IF estado[t] = "error" THEN "exception" ELSE @]
                     /\ UNCHANGED <<desenlace, pc, veces>>
    /\ UNCHANGED <<rvars, fvars, cfgvars, rc, xlsx, hilo, sesion, sessions, sinkvars>>
    /\ UNCHANGED <<pausa, peticiones, flushes, esperadas, aceptadas>>

\* the merge raised and the executor has shut down (no task queued or
\* running): finally _close_thread_sessions(); the exception reaches
\* main, which logs it, copies the log and returns 1
ListarPoolError ==
    /\ pc = "listar_pool_error"
    /\ \A t \in 1..Len(estado) : estado[t] \notin {"cola", "curso"}
    /\ CloseThreadSessions
    /\ pc' = "fin"
    /\ rc' = "1"
    /\ UNCHANGED <<rvars, fvars, cfgvars, xlsx, estado, resultado, hilo>>
    /\ UNCHANGED <<listvars, sinkvars, histvars>>

\* every future was collected: the executor shuts down, the sessions are
\* closed, codigos is returned
ListarPoolFin ==
    /\ pc = "listar_pool"
    /\ \A t \in 1..Len(estado) : estado[t] = "recogida"
    /\ CloseThreadSessions
    /\ pc' = "descargar"
    /\ UNCHANGED <<rvars, fvars, cfgvars, rc, xlsx, estado, resultado, hilo>>
    /\ UNCHANGED <<listvars, sinkvars, histvars>>

(***************************************************************************)
(* descargar_detalle_y_escribir                                            *)
(***************************************************************************)
\* history: the row a served detail response calls for, by the validity
\* window [desde, hasta] (inclusive, compared by day)
EsperadaDe(codigo, r) ==
    IF r.tipo = "oc" /\ r.fecha.tipo = "fecha" /\ desde <= r.fecha.dia /\ r.fecha.dia <= hasta
      THEN {[Codigo |-> codigo, FechaCreacion |-> <<r.fecha.dia>>]}
      ELSE {}

\* history: the class of a served detail response
DesenlaceDe(codigo, r) ==
    IF r.tipo = "excepcion" THEN "exc"
    ELSE IF r.tipo # "oc" THEN "fallo"
    ELSE IF EsperadaDe(codigo, r) = {} THEN "rechazada"
    ELSE "fila"

\* descargar_detalle_y_escribir up to its first request: the old file is
\* unlinked, the sink's locals are set; a session for the sequential loop,
\* or every identifier submitted to the pool (whose threads are new)
DescargarInicio ==
    /\ pc = "descargar"
    /\ csv' = NoFile
    /\ escribir_header' = TRUE
    /\ filas_batch' = <<>>
    /\ escritos' = 0
    /\ estado' = [t \in 1..Len(codigos) |-> "cola"]
    /\ resultado' = [t \in 1..Len(codigos) |-> <<>>]
    /\ pausa' = [t \in 1..Len(codigos) |-> "-"]
    /\ desenlace' = [t \in 1..Len(codigos) |-> "-"]
    /\ avisos' = [t \in 1..Len(codigos) |-> "-"]
    /\ IF workers <= 1
         THEN /\ pc' = "descargar_seq"
              /\ sesion' = [w \in Threads |-> IF w = 0 THEN "open" ELSE "none"]
         ELSE /\ pc' = "descargar_pool"
              /\ sesion' = [w \in Threads |-> "none"]
    /\ veces' = [x \in Ids |-> 0]
    /\ leidos' = <<>>
    /\ UNCHANGED <<rvars, fvars, cfgvars, rc, xlsx, hilo, sessions, codigos, vistos>>
    /\ UNCHANGED <<peticiones, flushes, esperadas, aceptadas>>

\* one iteration of the sequential loop of descargar_detalle_y_escribir
DescargarSeqIter ==
    /\ pc = "descargar_seq"
    /\ Siguiente # 0
    /\ LET t == Siguiente
           codigo == codigos[Siguiente]
       IN
       /\ peticiones' = [peticiones EXCEPT ![codigo] = @ + 1]
       /\ \E r \in RespDetalle :
            /\ esperadas' = esperadas \cup EsperadaDe(codigo, r)
            /\ IF r.tipo = "excepcion"
                 THEN /\ Abortar(t)
                      /\ UNCHANGED <<sinkvars, flushes, aceptadas>>
                 ELSE LET fila == FilaDe(codigo, r, desde, hasta) IN
                      /\ estado' = [estado EXCEPT ![t] = "recogida"]
                      /\ desenlace' = [desenlace EXCEPT ![t] = DesenlaceDe(codigo, r)]
                      /\ avisos' = [avisos EXCEPT ![t] = AvisoDe(r)]
                      /\ UNCHANGED <<pc, rc, sesion, sessions>>
                      /\ IF fila = <<>>
                           THEN \* continue
                                /\ pausa' = [pausa EXCEPT ![t] = "no"]
                                /\ UNCHANGED <<sinkvars, flushes, aceptadas>>
                           ELSE /\ SinkIs(Aceptar(Sink, fila[1], batch_size))
                                /\ aceptadas' = Append(aceptadas, fila[1])
                                /\ pausa' = [pausa EXCEPT ![t] = "si"]
    /\ UNCHANGED <<rvars, fvars, cfgvars, xlsx, resultado, hilo, listvars, veces>>

\* the sequential loop is over: finally session.close(); flush(); the
\* total is logged and csv_path returned
DescargarSeqFin ==
    /\ pc = "descargar_seq"
    /\ Siguiente = 0
    /\ sesion' = [sesion EXCEPT ![0] = "closed"]
    /\ SinkIs(Flush(Sink))
    /\ pc' = "exportar"
    /\ UNCHANGED <<rvars, fvars, cfgvars, rc, xlsx, estado, resultado, hilo, sessions, listvars>>
    /\ UNCHANGED <<veces, pausa, desenlace, avisos, peticiones, esperadas, aceptadas>>

\* procesar(codigo) from the response on: parse, filter, build the row;
\* finally time.sleep(pausa); return
DescargarTareaFin(w) ==
    /\ pc = "descargar_pool"
    /\ hilo[w] # 0
    /\ LET t == hilo[w]
           codigo == codigos[hilo[w]]
       IN
       \E r \in RespDetalle :
          /\ esperadas' = esperadas \cup EsperadaDe(codigo, r)
          /\ estado' = [estado EXCEPT ![t] = IF r.tipo = "excepcion" THEN "error" ELSE "hecha"]
          /\ resultado' = [resultado EXCEPT
                             ![t] = IF r.tipo = "excepcion" THEN <<>>
                                    ELSE FilaDe(codigo, r, desde, hasta)]
          /\ pausa' = [pausa EXCEPT ![t] = "si"]
          /\ desenlace' = [desenlace EXCEPT ![t] = DesenlaceDe(codigo, r)]
          /\ avisos' = [avisos EXCEPT ![t] = AvisoDe(r)]
    /\ hilo' = [hilo EXCEPT ![w] = 0]
    /\ UNCHANGED <<rvars, fvars, cfgvars, pc, rc, xlsx, sesion, sessions, listvars, sinkvars>>
    /\ UNCHANGED <<veces, peticiones, flushes, aceptadas>>

\* one turn of the as_completed loop of descargar_detalle_y_escribir:
\* future.result() (an exception gives fila = None); a row goes to the batch
DescargarRecoger(t) ==
    /\ pc = "descargar_pool"
    /\ t \in 1..Len(estado)
    /\ estado[t] \in {"hecha", "error"}
    /\ IF Recogido(t) = <<>>
         THEN UNCHANGED <<sinkvars, flushes, aceptadas>>
         ELSE /\ SinkIs(Aceptar(Sink, Recogido(t)[1], batch_size))
              /\ aceptadas' = Append(aceptadas, Recogido(t)[1])
    /\ estado' = [estado EXCEPT ![t] = "recogida"]
    /\ resultado' = [resultado EXCEPT ![t] = <<>>]
    /\ avisos' = [avisos EXCEPT ![t] = IF estado[t] = "error" THEN "exception" ELSE @]
    /\ UNCHANGED <<rvars, fvars, cfgvars, pc, rc, xlsx, hilo, sesion, sessions, listvars>>
    /\ UNCHANGED <<veces, pausa, desenlace, peticiones, esperadas>>

\* every future was collected: the executor shuts down, the sessions are
\* closed; flush(); the total is logged and csv_path returned
DescargarPoolFin ==
    /\ pc = "descargar_pool"
    /\ \A t \in 1..Len(estado) : estado[t] = "recogida"
    /\ CloseThreadSessions
    /\ SinkIs(Flush(Sink))
    /\ pc' = "exportar"
    /\ UNCHANGED <<rvars, fvars, cfgvars, rc, xlsx, estado, resultado, hilo, listvars>>
    /\ UNCHANGED <<veces, pausa, desenlace, avisos, peticiones, esperadas, aceptadas>>

\* main after the fetch phase: the spreadsheet when the csv exists, else
\* the warning "No se generó archivo CSV"; return 0
MainExportar ==
    /\ pc = "exportar"
    /\ xlsx' = csv.existe
    /\ rc' = "0"
    /\ pc' = "fin"
    /\ UNCHANGED <<rvars, fvars, cfgvars, taskvars, listvars, sinkvars, histvars>>

Next ==
    \/ MainValidar
    \/ ListarInicio
    \/ ListarSeqIter
    \/ ListarSeqFin
    \/ \E w \in 1..MaxWorkers : TareaInicio(w)
    \/ \E w \in 1..MaxWorkers : ListarTareaFin(w)
    \/ \E t \in 1..Len(estado) : ListarRecoger(t)
    \/ ListarPoolFin
    \/ ListarPoolError
    \/ DescargarInicio
    \/ DescargarSeqIter
    \/ DescargarSeqFin
    \/ \E w \in 1..MaxWorkers : DescargarTareaFin(w)
    \/ \E t \in 1..Len(estado) : DescargarRecoger(t)
    \/ DescargarPoolFin
    \/ MainExportar

Spec == Init /\ [][Next]_vars

\* one call of request_with_retries on its own, the pipeline at rest
InitRetry == RetryInit /\ PipelineIdle /\ FilaIdle

SpecRetry == InitRetry /\ [][RetryNext]_vars

\* one call of construir_fila_oc on its own, the rest of the program at rest
InitFila == FilaInit /\ RetryIdle /\ PipelineIdle

SpecFila == InitFila /\ [][ConstruirFila]_vars

(***************************************************************************)
(* Properties                                                              *)
(***************************************************************************)
\* listar_oc_por_rango has returned its sequence (handed to the fetch phase)
ListadoDevuelto == pc = "descargar"

\* descargar_detalle_y_escribir has returned (main goes on to the export)
DescargaDevuelta == pc = "exportar" \/ (pc = "fin" /\ rc = "0")

\* the fetch phase has started in this run
EnDescarga == pc \in {"descargar_seq", "descargar_pool", "exportar"} \/ (pc = "fin" /\ rc = "0")

Ocurrencias(seq, x) == Cardinality({i \in 1..Len(seq) : seq[i] = x})

\* rows held by futures that completed and were not collected yet
FilasPendientes ==
    IF pc = "descargar_pool"
      THEN UNION {Range(resultado[t]) : t \in {u \in 1..Len(estado) : estado[u] = "hecha"}}
      ELSE {}

\* C1. Deduplication. In every state of the run no identifier occurs twice
\* in codigos, and vistos holds exactly the identifiers of codigos; when
\* listar_oc_por_rango returns, every identifier listed by k >= 1 cells
\* whose task succeeded occurs exactly once in the sequence returned.
C1_Deduplicacion ==
    /\ \A x \in Ids : Ocurrencias(codigos, x) <= 1
    /\ vistos = Range(codigos)
    /\ ListadoDevuelto => \A x \in Ids : veces[x] >= 1 => Ocurrencias(codigos, x) = 1

\* C1 witness: a pool run returned a sequence of two identifiers, one of
\* them listed by two cells.
C1_Witness ==
    /\ ListadoDevuelto
    /\ workers > 1
    /\ Len(codigos) = 2
    /\ \E x \in Ids : veces[x] = 2

\* C2. Order independence. At worker count 1 as at worker count N > 1 a run
\* that passed validation ends with exactly one row in the table per served
\* record dated inside the window: the final rows are a function of the
\* served responses alone, not of the worker count or the completion order.
C2_MismoResultado ==
    (pc = "fin" /\ ~RangoInvalido(desde, hasta)) =>
        /\ Range(csv.filas) = esperadas
        /\ Len(csv.filas) = Cardinality(esperadas)

\* C3. Validity filter. In both fetch paths every row produced (held by a
\* future, in the batch or in the table) is dated inside [desde, hasta];
\* the rows produced are exactly those of the served records dated inside
\* the window, bounds included (a record with no date, an unparsable one or
\* one dated outside gives none); and when the phase returns they are the
\* rows of the table.
C3_FiltroDeValidez ==
    /\ \A f \in Range(aceptadas) \cup FilasPendientes \cup Range(filas_batch) :
          \E d \in desde..hasta : f.FechaCreacion = <<d>>
    /\ Range(aceptadas) \cup FilasPendientes = esperadas
    /\ EnDescarga => Range(csv.filas) \cup Range(filas_batch) = Range(aceptadas)
    /\ DescargaDevuelta => Range(csv.filas) = esperadas

\* C3 witness: a run over a three-day window ended with a row dated desde,
\* a row dated hasta, and an identifier whose record was rejected.
C3_Witness ==
    /\ pc = "fin"
    /\ rc = "0"
    /\ hasta = 3
    /\ \E i \in 1..Len(csv.filas) : csv.filas[i].FechaCreacion = <<desde>>
    /\ \E i \in 1..Len(csv.filas) : csv.filas[i].FechaCreacion = <<hasta>>
    /\ \E t \in 1..Len(desenlace) : desenlace[t] = "rechazada"

\* what the retry policy calls retryable: HTTP 429, any 5xx status, or a
\* transport-level exception
PoliticaReintenta(o) == o = Exc \/ o = 429 \/ (o # Exc /\ o \div 100 = 5)

\* what the retry policy calls terminal: any other status outside 2xx
PoliticaTerminal(o) == o # Exc /\ o \div 100 # 2 /\ ~PoliticaReintenta(o)

\* C4. Retry termination. Never more than `retries` attempts are made; while
\* every attempt so far returned 503 each was followed by one backoff sleep;
\* and a call whose every attempt returned 503 returns only after exactly
\* `retries` attempts, with no response, having logged the exhaustion.
C4_Terminacion503 ==
    /\ Len(statuses) <= retries
    /\ attempt <= retries
    /\ (\A i \in 1..Len(statuses) : statuses[i] = 503) =>
          /\ attempt = Len(statuses)
          /\ Len(sleeps) = Len(statuses)
          /\ rpc = "returned" =>
                /\ Len(statuses) = retries
                /\ response = "None"
                /\ rlog # <<>> /\ rlog[Len(rlog)] = "agotados"

\* C4 witness: with retries = 3 the call returned None after three 503s.
C4_Witness ==
    /\ rpc = "returned"
    /\ retries = 3
    /\ statuses = <<503, 503, 503>>
    /\ response = "None"

\* C5. Batch flush completeness. When descargar_detalle_y_escribir returns
\* after accepting M rows with batch size B, the table holds exactly those
\* M rows, the batch is empty, and they were written by ceil(M/B) flushes:
\* each of B rows but the last, which holds the M mod B remaining rows when
\* B does not divide M.
C5_FlushCompleto ==
    DescargaDevuelta =>
        LET M == Len(aceptadas)
            B == batch_size
            n == Len(flushes)
        IN  /\ csv.filas = aceptadas
            /\ filas_batch = <<>>
            /\ n = (M + B - 1) \div B
            /\ \A i \in 1..(n - 1) : flushes[i] = B
            /\ n > 0 => flushes[n] = (IF M % B = 0 THEN B ELSE M % B)

\* C5 witness: three rows accepted with batch size 2, written as a full
\* batch and a final partial batch of one row.
C5_Witness ==
    /\ pc = "fin"
    /\ rc = "0"
    /\ batch_size = 2
    /\ Len(aceptadas) = 3
    /\ flushes = <<2, 1>>
    /\ Len(csv.filas) = 3

FilasDe(x) == {i \in 1..Len(csv.filas) : csv.filas[i].Codigo = x}

\* C6. One detail request per unique identifier. No identifier is ever
\* requested twice, and none that is not in codigos is requested; when the
\* fetch phase returns every identifier of codigos was requested exactly
\* once; and the table holds at most one row per identifier.
C6_UnaPeticionPorCodigo ==
    /\ \A x \in Ids : peticiones[x] <= 1
    /\ \A x \in Ids : peticiones[x] >= 1 => x \in Range(codigos)
    /\ DescargaDevuelta => \A x \in Range(codigos) : peticiones[x] = 1
    /\ EnDescarga => \A x \in Ids : Cardinality(FilasDe(x)) <= peticiones[x]

\* C6 witness: two consecutive days, one organization, one identifier in
\* the sequence: one detail request was issued and the table holds one row.
C6_Witness ==
    /\ pc = "fin"
    /\ rc = "0"
    /\ hasta = desde + 1
    /\ organismos = <<"o1">>
    /\ codigos = <<"a">>
    /\ peticiones = [x \in Ids |-> IF x = "a" THEN 1 ELSE 0]
    /\ Len(csv.filas) = 1

\* C7. Best-effort output table: every run that ends with status 0 leaves
\* an output table of this run, with its header written once and the rows
\* accepted, also when no row was accepted.
C7_TablaSiempre ==
    (pc = "fin" /\ rc = "0") =>
        /\ csv.existe
        /\ csv.cabeceras = 1
        /\ Range(csv.filas) = Range(aceptadas)

\* C8. Task-boundary error isolation: at every worker count a run in which
\* a task raised an unexpected error still handles every task of the phase
\* and ends with status 0.
C8_ErrorAislado ==
    (pc = "fin" /\ \E t \in 1..Len(desenlace) : desenlace[t] = "exc") =>
        /\ rc = "0"
        /\ \A u \in 1..Len(estado) : estado[u] # "cola"

\* C9. Retry classification. An attempt is followed by another one only if
\* it ended with 429, a 5xx status or a transport exception; such an attempt
\* is logged as a warning and followed by a backoff sleep, and the call is
\* given up after it only when no attempt remains; an attempt that ended
\* with any other status outside 2xx is the last one: it is logged as an
\* error and the call returns None with no backoff sleep after it.
C9_Clasificacion ==
    \A i \in 1..Len(statuses) :
        LET o == statuses[i] IN
        /\ i < Len(statuses) => PoliticaReintenta(o)
        /\ PoliticaReintenta(o) =>
              /\ Len(sleeps) >= i
              /\ rlog[i] = "warning"
              /\ (i = Len(statuses) /\ rpc = "returned") =>
                    /\ i = retries
                    /\ response = "None"
                    /\ rlog[Len(rlog)] = "agotados"
        /\ PoliticaTerminal(o) =>
              /\ i = Len(statuses)
              /\ rpc = "returned"
              /\ response = "None"
              /\ Len(sleeps) = i - 1
              /\ Len(rlog) = i
              /\ rlog[i] = "error"

\* C9 witness: a transport exception and a 500 were retried, then a 404
\* ended the call at once.
C9_Witness ==
    /\ rpc = "returned"
    /\ retries = 3
    /\ statuses = <<Exc, 500, 404>>
    /\ Len(sleeps) = 2
    /\ response = "None"

\* C10. Pacing after every request: a thread issues its next request only
\* after the pacing sleep that follows its previous one, whatever that
\* request's outcome. (Pool threads always sleep before they return; the
\* sequential loops run on the main thread, task after task.)
C10_PausaTrasCadaPeticion ==
    \A t \in 1..Len(pausa) :
        pausa[t] = "no" => \A u \in (t + 1)..Len(estado) : estado[u] = "cola"

\* C11. Phase completion. With more than one worker, once a phase is over
\* (returned, or ended by an error) no task is queued or running, no pool
\* thread holds an open session and the session registry is empty; and a
\* phase that returned had every task's result collected.
C11_FaseCompleta ==
    workers > 1 =>
        /\ pc \in {"descargar", "exportar", "fin"} =>
              /\ \A t \in 1..Len(estado) : estado[t] \notin {"cola", "curso"}
              /\ \A w \in 1..MaxWorkers : hilo[w] = 0 /\ sesion[w] # "open"
              /\ sessions = <<>>
        /\ (ListadoDevuelto \/ DescargaDevuelta) =>
              \A t \in 1..Len(estado) : estado[t] = "recogida" /\ resultado[t] = <<>>

\* C11 witness: a pool discovery over three cells ended by the collector's
\* error; both threads had created a session and both are closed.
C11_Witness ==
    /\ pc = "fin"
    /\ rc = "1"
    /\ workers = 2
    /\ Len(estado) = 3
    /\ \E t \in 1..3 : estado[t] = "error" /\ desenlace[t] = "exc" /\ pausa[t] = "si"
    /\ \A w \in 1..2 : sesion[w] = "closed"
    /\ sessions = <<>>

\* C12 (as stated): for every Detail Record, construir_fila_oc never raises,
\* and the row it returns has exactly the 21 fields of COLUMNAS as its keys,
\* each holding a value, the empty string where the source field is absent.
C12_EsquemaCompleto ==
    /\ fpc # "lanzada"
    /\ fpc = "devuelta" =>
          /\ DOMAIN fila_oc = COLUMNAS
          /\ Cardinality(DOMAIN fila_oc) = 21
          /\ \A c \in COLUMNAS : fila_oc[c] \in {"", "None", "v", "fecha"}
          /\ datos_oc.Codigo = "absent" => fila_oc["Co'digo OC"] = ""
          /\ datos_oc.otros = "absent" => fila_oc["Total"] = ""
          /\ datos_oc.Fechas = "absent" => fila_oc["Fecha Creacio'n"] = ""
          /\ datos_oc.Items = "absent" => fila_oc["Codigo producto"] = ""

\* what holds of construir_fila_oc whenever it returns: the 21 keys, each
\* holding a value, the default where the source field is absent
FilaDevueltaCompleta ==
    fpc = "devuelta" =>
        /\ DOMAIN fila_oc = COLUMNAS
        /\ Cardinality(DOMAIN fila_oc) = 21
        /\ \A c \in COLUMNAS : fila_oc[c] \in {"", "None", "v", "fecha"}
        /\ datos_oc = OcVacia => \A c \in COLUMNAS : fila_oc[c] = ""

\* the discovery phase is under way: `estado` holds the grid's Query Cells
EnListado == pc \in {"listar_seq", "listar_pool", "listar_pool_error"}

\* C13: a run with hasta < desde ends with status 1 straight from main's
\* validation: no task is ever created, no request issued, no session opened,
\* and the output table is left as it was; a run with desde <= hasta (also
\* desde = hasta) leaves the validation for the discovery phase, whose grid
\* holds every date of desde..hasta exactly once per organization.
C13_Validacion ==
    /\ [](hasta < desde =>
            /\ pc \in {"main", "fin"}
            /\ pc = "fin" => rc = "1"
            /\ estado = <<>> /\ pausa = <<>>
            /\ \A x \in Ids : peticiones[x] = 0
            /\ \A w \in Threads : sesion[w] = "none"
            /\ flushes = <<>>
            /\ csv \in {NoFile, StaleFile}
            /\ xlsx = FALSE)
    /\ [](desde <= hasta =>
            /\ (pc = "fin" /\ rc = "1") => estado # <<>>
            /\ Len(RangoFechas(desde, hasta)) = hasta - desde + 1
            /\ \A d \in desde..hasta :
                 Cardinality({i \in 1..Len(RangoFechas(desde, hasta)) :
                                 RangoFechas(desde, hasta)[i] = d}) = 1
            /\ EnListado =>
                 /\ Len(estado) = (hasta - desde + 1) * Len(organismos)
                 /\ \A d \in desde..hasta : \A o \in Range(organismos) :
                      Cardinality({k \in 1..Len(estado) :
                          Combinaciones(desde, hasta, organismos)[k] =
                              [dia |-> d, organismo |-> o]}) = 1)
    /\ [][pc = "main" =>
            /\ csv' = csv
            /\ pc' = (IF hasta < desde THEN "fin" ELSE "listar")
            /\ rc' = (IF hasta < desde THEN "1" ELSE "none")]_vars

C13_Witness ==
    /\ hasta < desde
    /\ pc = "fin" /\ rc = "1"
    /\ csv = StaleFile
    /\ estado = <<>>

\* C14 (as stated): in the fetch phase every identifier skipped because of a
\* failure (no response after the retries or a terminal status, a body that
\* is not JSON, a listing field missing or empty) has a log event naming the
\* reason; an identifier rejected by the validity filter has none.
C14_OmisionRegistrada ==
    EnDescarga =>
        \A t \in 1..Len(estado) :
            /\ desenlace[t] = "fallo" => avisos[t] \in {"peticion", "nojson"}
            /\ desenlace[t] = "rechazada" => avisos[t] = "-"

\* C15: the tasks of the discovery phase are the whole grid, one per date of
\* desde..hasta and organization; the step in which a cell ends in a failed
\* request (no response after the retries or a terminal status, or a body
\* that is not JSON) adds nothing to codigos and does not end the run; and
\* when listar_oc_por_rango returns, every cell has been attempted and every
\* identifier listed by a cell that was served is in the sequence.
C15_CoberturaParcial ==
    /\ []((EnListado \/ ListadoDevuelto) =>
            /\ Len(estado) = (hasta - desde + 1) * Len(organismos)
            /\ \A t \in 1..Len(estado) :
                 desenlace[t] = "fallo" => resultado[t] = <<>> /\ avisos[t] # "-")
    /\ [](ListadoDevuelto =>
            /\ \A t \in 1..Len(estado) : estado[t] = "recogida"
            /\ Range(codigos) = {x \in Ids : veces[x] >= 1})
    /\ [][EnListado =>
            \A t \in 1..Len(estado) :
                (desenlace'[t] = "fallo" /\ estado'[t] # estado[t]) =>
                    /\ codigos' = codigos
                    /\ vistos' = vistos
                    /\ pc' = pc /\ rc' = "none"]_vars

C15_Witness ==
    /\ ListadoDevuelto
    /\ Len(estado) = 3
    /\ desenlace[2] = "fallo" /\ avisos[2] = "peticion"
    /\ desenlace[1] = "listado" /\ desenlace[3] = "listado"
    /\ codigos = <<"a", "c">>

\* C16: in request_with_retries every retryable failure (and nothing else)
\* is followed by one delay; the k-th delay is 2^(k-1) whatever the kind of
\* the failures (429, 5xx or exception), so the next one is 2^attempt; no
\* attempt is made once `attempt` has reached `retries`, and a call that
\* returns with attempt = retries was abandoned: no response, exhaustion logged.
C16_Backoff ==
    /\ Len(sleeps) = attempt
    /\ Cardinality({i \in 1..Len(statuses) : PoliticaReintenta(statuses[i])}) = attempt
    /\ \A k \in 1..Len(sleeps) : sleeps[k] = 2 ^ (k - 1)
    /\ wait = 2 ^ attempt
    /\ attempt <= retries
    /\ Len(statuses) <= retries
    /\ (rpc = "returned" /\ attempt = retries) =>
          /\ response = "None"
          /\ rlog[Len(rlog)] = "agotados"
    /\ (rpc = "returned" /\ rlog # <<>> /\ rlog[Len(rlog)] = "agotados") => attempt = retries

C16_Witness ==
    /\ rpc = "returned"
    /\ retries = 3
    /\ statuses = <<Exc, 429, 503>>
    /\ sleeps = <<1, 2, 4>>
    /\ wait = 8
    /\ rlog = <<"warning", "warning", "warning", "agotados">>

\* the elements of seq, each at the place of its first occurrence
PrimerasOcurrencias(seq) ==
    LET I == {i \in 1..Len(seq) : \A j \in 1..(i - 1) : seq[j] # seq[i]}
    IN  [k \in 1..Cardinality(I) |->
            seq[CHOOSE i \in I : Cardinality({j \in I : j < i}) = k - 1]]

\* s is an initial part of t
EsPrefijo(s, t) == Len(s) <= Len(t) /\ SubSeq(t, 1, Len(s)) = s

\* the grid lists the dates in ascending order and, for each date, the
\* organizations in the order of the list
OrdenDeRejilla ==
    LET g == Combinaciones(desde, hasta, organismos)
    IN  \A j, k \in 1..Len(g) :
            j < k =>
                \/ g[j].dia < g[k].dia
                \/ /\ g[j].dia = g[k].dia
                   /\ \E a, b \in 1..Len(organismos) :
                        /\ a < b
                        /\ organismos[a] = g[j].organismo
                        /\ organismos[b] = g[k].organismo

\* C17: with workers <= 1 the cells are requested one at a time in grid
\* order (the cells already requested are an initial part of the grid, none
\* is in flight, no pool thread runs); codigos holds the codes read so far,
\* each at the place of its first occurrence, so it is a function of the
\* responses alone; and every step of the discovery only appends to it.
C17_OrdenReproducible ==
    /\ []((workers <= 1 /\ (pc = "listar_seq" \/ ListadoDevuelto)) =>
            /\ OrdenDeRejilla
            /\ \A t \in 1..Len(estado) :
                 /\ estado[t] \in {"cola", "recogida"}
                 /\ estado[t] # "cola" => \A u \in 1..(t - 1) : estado[u] # "cola"
            /\ \A w \in 1..MaxWorkers : hilo[w] = 0 /\ sesion[w] = "none"
            /\ codigos = PrimerasOcurrencias(leidos)
            /\ vistos = Range(codigos))
    /\ [][(workers <= 1 /\ pc = "listar_seq") =>
            /\ EsPrefijo(codigos, codigos')
            /\ EsPrefijo(leidos, leidos')
            /\ \A t \in 1..Len(estado) :
                 estado'[t] # estado[t] =>
                    /\ estado[t] = "cola"
                    /\ \A u \in 1..(t - 1) : estado[u] # "cola"
                    /\ \A u \in (t + 1)..Len(estado) : estado'[u] = "cola"]_vars

C17_Witness ==
    /\ workers = 1
    /\ ListadoDevuelto
    /\ Len(estado) = 3
    /\ leidos = <<"b", "a", "a", "c", "b">>
    /\ codigos = <<"b", "a", "c">>

\* C18: in the fetch phase, between two operations of the sink, fewer than
\* batch_size accepted rows are waiting in filas_batch; the rows accepted so
\* far are the rows of the table followed by that batch, in order; every
\* batch written inside the loops holds exactly batch_size rows; and a row
\* once written is never removed or changed. A crash therefore loses only
\* the rows of the current batch.
C18_PerdidaAcotada ==
    /\ [](EnDescarga =>
            /\ batch_size >= 1
            /\ pc \in {"descargar_seq", "descargar_pool"} => Len(filas_batch) < batch_size
            /\ csv.filas \o filas_batch = aceptadas
            /\ escritos = Len(csv.filas)
            /\ Len(aceptadas) - Len(csv.filas) <= batch_size - 1
            /\ \A i \in 1..Len(flushes) :
                 (i < Len(flushes) \/ pc \in {"descargar_seq", "descargar_pool"}) =>
                     flushes[i] = batch_size)
    /\ [][EnDescarga => EsPrefijo(csv.filas, csv.filas')]_vars

C18_Witness ==
    /\ pc \in {"descargar_seq", "descargar_pool"}
    /\ batch_size = 2
    /\ Len(aceptadas) = 3
    /\ Len(csv.filas) = 2
    /\ Len(filas_batch) = 1
    /\ flushes = <<2>>

\* C19: with workers > 1 a step of a pool thread (taking a task, finishing
\* one) never reads or writes codigos, vistos, filas_batch or the table:
\* only the collector does, one future at a time, so no two threads are ever
\* inside a read-modify-write of them. Between any two steps the set and the
\* sequence agree and hold no identifier twice (test and insertion are one
\* step), and every write to the table is made by the collector and appends
\* the rows accepted since the last write, whole and in order.
C19_ExclusionMutua ==
    /\ [](workers > 1 =>
            /\ vistos = Range(codigos)
            /\ \A x \in Ids : Ocurrencias(codigos, x) <= 1
            /\ \A i \in 1..Len(csv.filas) :
                 csv.filas[i] = FilaVieja
                    \/ DOMAIN csv.filas[i] = {"Codigo", "FechaCreacion"})
    /\ [][(workers > 1 /\ hilo' # hilo) =>
            UNCHANGED <<codigos, vistos, filas_batch, csv, escritos, escribir_header>>]_vars
    /\ [][(workers > 1 /\ pc = "descargar_pool" /\ csv' # csv) =>
            /\ hilo' = hilo
            /\ EsPrefijo(csv.filas, csv.filas')
            /\ csv.filas' = SubSeq(aceptadas', 1, Len(csv.filas'))
            /\ Len(csv.filas') - Len(csv.filas) = flushes'[Len(flushes')]]_vars

C19_Witness ==
    /\ workers = 2
    /\ pc = "descargar_pool"
    /\ hilo[1] # 0 /\ hilo[2] # 0
    /\ Len(codigos) = 3
    /\ Len(csv.filas) = 1
    /\ \E t \in 1..3 : estado[t] = "recogida" /\ desenlace[t] = "fila"

\* C20: with workers > 1 only pool threads register sessions, each at most
\* one per phase; a thread that runs a task holds its own open, registered
\* session; a thread that takes a task creates and registers a session only
\* if it has none yet and otherwise keeps the one it has; and a session is
\* closed only in a step in which no pool thread is running a task.
C20_SesionPorHilo ==
    /\ [](workers > 1 =>
            /\ sesion[0] = "none"
            /\ \A i \in 1..Len(sessions) : sessions[i] \in 1..workers
            /\ \A w \in 1..MaxWorkers :
                 /\ Ocurrencias(sessions, w) <= 1
                 /\ hilo[w] # 0 => sesion[w] = "open"
                 /\ sesion[w] = "open" <=> w \in Range(sessions))
    /\ [][workers > 1 =>
            \A w \in 1..MaxWorkers :
                /\ (hilo[w] = 0 /\ hilo'[w] # 0) =>
                      /\ sesion'[w] = "open"
                      /\ sessions' = (IF sesion[w] = "none" THEN Append(sessions, w)
                                      ELSE sessions)
                /\ (hilo[w] # 0 /\ hilo'[w] = 0) => UNCHANGED <<sesion, sessions>>
                /\ (sesion[w] = "open" /\ sesion'[w] # "open") =>
                      /\ sesion'[w] = "closed"
                      /\ \A v \in 1..MaxWorkers : hilo[v] = 0 /\ hilo'[v] = 0
                      /\ \A t \in 1..Len(estado) : estado[t] \notin {"cola", "curso"}]_vars

C20_Witness ==
    /\ workers = 2
    /\ pc = "descargar_pool"
    /\ Len(estado) = 3
    /\ sessions = <<1, 2>>
    /\ hilo[1] = 3 /\ hilo[2] = 2
    /\ estado[1] = "recogida"

\* the tasks being executed: taken by a thread and not yet returned (the
\* request with its retries and backoff, the processing, the pacing sleep)
EnCurso == {t \in 1..Len(estado) : estado[t] = "curso"}

\* C21: in both phases the tasks being executed are never more than
\* `workers`: each of them is run by one pool thread of index <= workers,
\* and no thread runs two; with workers <= 1 no pool thread runs at all and
\* the main thread handles one task per iteration, so at most one request
\* is in flight.
C21_ConcurrenciaAcotada ==
    /\ [](/\ workers >= 1
          /\ Cardinality(EnCurso) <= workers
          /\ \A t \in EnCurso :
                Cardinality({w \in 1..MaxWorkers : hilo[w] = t}) = 1
          /\ \A w \in 1..MaxWorkers :
                hilo[w] # 0 => w <= workers /\ hilo[w] \in EnCurso
          /\ workers <= 1 =>
                /\ EnCurso = {}
                /\ \A w \in 1..MaxWorkers : hilo[w] = 0)
    /\ [][(workers <= 1 /\ pc' = pc /\ pc \in {"listar_seq", "descargar_seq"}) =>
            /\ Cardinality({t \in 1..Len(estado) : estado'[t] # estado[t]}) <= 1
            /\ \A t \in 1..Len(estado) :
                 estado'[t] # estado[t] =>
                    estado[t] = "cola" /\ estado'[t] = "recogida"]_vars

C21_Witness ==
    /\ workers = 2
    /\ pc = "listar_pool"
    /\ Len(estado) = 3
    /\ Cardinality(EnCurso) = 2
    /\ estado[3] = "cola"
    /\ hilo[1] # 0 /\ hilo[2] # 0

\* C22: every flush adds the size of the batch it writes to escritos, after
\* which escritos is the number of data rows in the table; and the value of
\* escritos when descargar_detalle_y_escribir logs its total and returns
\* (after the final flush) is the number of rows accepted in the run.
C22_TotalEscritas ==
    /\ [](EnDescarga => escritos = Len(csv.filas))
    /\ [](DescargaDevuelta =>
            /\ escritos = Len(aceptadas)
            /\ filas_batch = <<>>)
    /\ [][(EnDescarga /\ flushes' # flushes) =>
            /\ Len(flushes') = Len(flushes) + 1
            /\ escritos' = escritos + flushes'[Len(flushes')]
            /\ escritos' = Len(csv.filas')]_vars
    /\ [][(pc \in {"descargar_seq", "descargar_pool"} /\ pc' = "exportar") =>
            escritos' = Len(aceptadas')]_vars

C22_Witness ==
    /\ DescargaDevuelta
    /\ batch_size = 2
    /\ flushes = <<2, 1>>
    /\ escritos = 3
    /\ Len(aceptadas) = 3

\* C23: the fetch phase starts by removing the output file; the header is
\* written by the first flush that has rows, into a file that holds nothing
\* yet, and by no later one; so whenever the file exists during the phase
\* it holds one header and then rows accepted in this run, in the order of
\* their acceptance, and no row of an earlier run.
C23_CabeceraUnaVez ==
    /\ [](EnDescarga =>
            /\ csv.existe <=> flushes # <<>>
            /\ escribir_header <=> flushes = <<>>
            /\ csv.cabeceras = (IF flushes = <<>> THEN 0 ELSE 1)
            /\ EsPrefijo(csv.filas, aceptadas)
            /\ FilaVieja \notin Range(csv.filas)
            /\ csv.existe => csv.filas # <<>>)
    /\ [][(pc = "descargar" /\ pc' # pc) =>
            csv' = NoFile /\ escribir_header' = TRUE]_vars
    /\ [][(EnDescarga /\ csv.cabeceras' # csv.cabeceras) =>
            /\ flushes = <<>>
            /\ ~csv.existe /\ csv.filas = <<>> /\ csv.cabeceras = 0
            /\ csv.cabeceras' = 1
            /\ csv.filas' # <<>>]_vars

C23_Witness ==
    /\ EnDescarga
    /\ batch_size = 1
    /\ Len(flushes) = 3
    /\ csv.cabeceras = 1
    /\ Len(csv.filas) = 3
    /\ escribir_header = FALSE

====
